---- MODULE Spec2Model ----
(***************************************************************************)
(* A model of cab.py: the cabinet reader (CABFile), the block checksum,    *)
(* the MSZIP chunking (make_cdatas / decompress_mzip) and the cabinet      *)
(* writer (make_cab).                                                      *)
(*                                                                         *)
(* Buffers are sequences of bytes (0..255).  Python offsets are 0-based,   *)
(* so the byte at Python offset o of buffer b is b[o + 1].                 *)
(* A 32-bit word is kept as its four little-endian byte lanes              *)
(* <<b0, b1, b2, b3>>, standing for b0 | b1<<8 | b2<<16 | b3<<24, so that  *)
(* the full 32-bit range of the checksum is representable.                 *)
(***************************************************************************)
EXTENDS Integers, Sequences, FiniteSets, TLC

VARIABLES pc, layout, compress, buf, cab, results, data, seed, out

vars == <<pc, layout, compress, buf, cab, results, data, seed, out>>

(***************************************************************************)
(* Bounds of the model.                                                    *)
(***************************************************************************)
\* longest buffer handed to checksum()
MaxCkLen == 7

\* longest buffer handed to make_cdatas() on its own
MaxData == 5

\* most folders in a layout handed to make_cab
MaxFolders == 2

\* make_cdatas' max_chunk_size.  The source sets 32768; the model scales it
\* down so that a folder spanning several data blocks stays a short buffer.
\* make_cdatas uses the value only through min(), slicing and subtraction.
max_chunk_size == 2

(***************************************************************************)
(* Integer helpers.                                                        *)
(***************************************************************************)
Min(a, b) == IF a < b THEN a ELSE b

\* Python's ^ on non-negative integers
RECURSIVE Xor(_, _)
Xor(a, b) ==
    IF a = 0 THEN b
    ELSE IF b = 0 THEN a
    ELSE (((a % 2) + (b % 2)) % 2) + 2 * Xor(a \div 2, b \div 2)

\* b0 | b1<<8 | b2<<16 | b3<<24 as byte lanes
Word(b0, b1, b2, b3) == <<b0, b1, b2, b3>>

\* ^ of two 32-bit words
XorWord(v, w) == [k \in 1..4 |-> Xor(v[k], w[k])]

\* Python slice s[beg:end] for 0 <= beg, 0 <= end (indices are clamped)
PySlice(s, beg, end) ==
    LET b == Min(beg, Len(s))
        e == Min(end, Len(s))
    IN  IF b >= e THEN <<>> ELSE SubSeq(s, b + 1, e)

\* all sequences over S of length at most n
SeqsUpTo(S, n) == UNION {[1..k -> S] : k \in 0..n}

(***************************************************************************)
(* checksum(buf, seed)                                                     *)
(***************************************************************************)
\* the loop "for i in range(0, last, 4)": i is the 0-based offset
RECURSIVE checksum_loop(_, _, _, _)
checksum_loop(b, i, last, sd) ==
    IF i >= last THEN sd
    ELSE checksum_loop(b, i + 4, last,
            XorWord(sd, Word(b[i + 1], b[i + 2], b[i + 3], b[i + 4])))

\* variant of the tail rule: trailing bytes taken in little-endian order
checksum_tail_swapped(b, last, rest, sd) ==
    IF rest = 1 THEN XorWord(sd, Word(b[last + 1], 0, 0, 0))
    ELSE IF rest = 2 THEN XorWord(sd, Word(b[last + 1], b[last + 2], 0, 0))
    ELSE IF rest = 3 THEN XorWord(sd, Word(b[last + 1], b[last + 2], b[last + 3], 0))
    ELSE sd

\* "handle uncomplete long at the end"
checksum_tail(b, last, rest, sd) ==
    IF rest = 1 THEN XorWord(sd, Word(b[last + 1], 0, 0, 0))
    ELSE IF rest = 2 THEN XorWord(sd, Word(b[last + 2], b[last + 1], 0, 0))
    ELSE IF rest = 3 THEN XorWord(sd, Word(b[last + 3], b[last + 2], b[last + 1], 0))
    ELSE sd

checksum(b, sd) ==
    LET size == Len(b)
        last == (size \div 4) * 4
        rest == size % 4
    IN  checksum_tail(b, last, rest, checksum_loop(b, 0, last, sd))

(***************************************************************************)
(* Specification of checksum() on its own: the buffer and the seed are     *)
(* drawn from bounded sets and the function is applied once.               *)
(***************************************************************************)
CkBytes == {1, 128, 255}
CkSeeds == {Word(0, 0, 0, 0), Word(1, 2, 3, 4), Word(255, 255, 255, 255)}

\* what a constructor that raised leaves: no object
Failed == [ok |-> FALSE]

InitChecksum ==
    /\ pc = "ck_call"
    /\ data \in SeqsUpTo(CkBytes, MaxCkLen)
    /\ seed \in CkSeeds
    /\ out = <<>>
    /\ layout = <<>>
    /\ compress = FALSE
    /\ buf = <<>>
    /\ cab = Failed
    /\ results = <<>>

CallChecksum ==
    /\ pc = "ck_call"
    /\ out' = checksum(data, seed)
    /\ pc' = "ck_done"
    /\ UNCHANGED <<layout, compress, buf, cab, results, data, seed>>

NextChecksum == CallChecksum

SpecChecksum == InitChecksum /\ [][NextChecksum]_vars

\* xor of the bytes b[i + 1] for the 0-based offsets i in S
RECURSIVE XorBytesAt(_, _)
XorBytesAt(b, S) ==
    IF S = {} THEN 0
    ELSE LET i == CHOOSE x \in S : TRUE
         IN  Xor(b[i + 1], XorBytesAt(b, S \ {i}))

\* offsets of the bytes that land in lane k (0..3) of a complete group
GroupLane(b, k) == {i \in 0..(Len(b) - 1) : i < (Len(b) \div 4) * 4 /\ i % 4 = k}

\* offsets of the trailing bytes that land in lane k when tail byte j goes to lane j
TailLaneLE(b, k) ==
    {i \in 0..(Len(b) - 1) : i >= (Len(b) \div 4) * 4 /\ i % 4 = k}

\* offsets of the trailing bytes that land in lane k when the first trailing
\* byte is the most significant one: tail byte j of r goes to lane r - 1 - j
TailLaneBE(b, k) ==
    {i \in 0..(Len(b) - 1) : i >= (Len(b) \div 4) * 4
                              /\ (Len(b) % 4) - 1 - (i % 4) = k}

\* C2 as stated: seed xor-folded with the complete little-endian words, the
\* trailing 1..3 bytes xored in as byte0 | byte1<<8 | byte2<<16.
C2_ChecksumTailLittleEndian ==
    pc = "ck_done" =>
        \A k \in 0..3 :
            out[k + 1] = Xor(seed[k + 1],
                             Xor(XorBytesAt(data, GroupLane(data, k)),
                                 XorBytesAt(data, TailLaneLE(data, k))))

\* C2 amended: the complete groups are folded as little-endian words, and the
\* trailing bytes are xored in with the FIRST trailing byte most significant:
\* byte0 for one byte, byte0<<8 | byte1 for two, byte0<<16 | byte1<<8 | byte2
\* for three.
C2_ChecksumTailFirstByteHigh ==
    pc = "ck_done" =>
        \A k \in 0..3 :
            out[k + 1] = Xor(seed[k + 1],
                             Xor(XorBytesAt(data, GroupLane(data, k)),
                                 XorBytesAt(data, TailLaneBE(data, k))))

\* a buffer with complete groups and a 3-byte tail of distinct bytes was summed
C2_Witness ==
    /\ pc = "ck_done"
    /\ Len(data) = 7
    /\ data[5] # data[7]
    /\ seed = Word(1, 2, 3, 4)

(***************************************************************************)
(* struct.pack / struct.unpack_from for the formats the program uses.      *)
(***************************************************************************)
\* struct.pack('<H', n)
U16(n) == <<n % 256, (n \div 256) % 256>>

\* struct.pack('<I', n)
U32(n) == <<n % 256, (n \div 256) % 256, (n \div 65536) % 256, (n \div 16777216) % 256>>

\* struct.unpack_from('<B' / '<H' / '<I', b, off)[0]
RdU8(b, off) == b[off + 1]
RdU16(b, off) == b[off + 1] + 256 * b[off + 2]
RdU32(b, off) == b[off + 1] + 256 * b[off + 2] + 65536 * b[off + 3] + 16777216 * b[off + 4]

\* the four bytes at off as a 32-bit word
RdWord(b, off) == Word(b[off + 1], b[off + 2], b[off + 3], b[off + 4])

\* BinWriter.write_at(off, fmt, *args): overwrite already written bytes
write_at_skip(b, off, bytes) == b

write_at(b, off, bytes) ==
    [k \in 1..Len(b) |->
        IF k > off /\ k <= off + Len(bytes) THEN bytes[k - off] ELSE b[k]]

\* b''.join(chunks)
RECURSIVE Join(_)
Join(chunks) ==
    IF chunks = <<>> THEN <<>> ELSE Head(chunks) \o Join(Tail(chunks))

(***************************************************************************)
(* zlib, as far as the program uses it: a raw deflate stream (wbits = -15).*)
(* The stream is modelled as a token stream with the structure of deflate: *)
(* literals, back-references into the window (preset dictionary followed   *)
(* by the output so far), a block boundary left by Z_FULL_FLUSH and an end *)
(* of stream left by Z_FINISH.  The compressor is one streaming object     *)
(* whose state is its history window; Z_FULL_FLUSH forgets the history.    *)
(***************************************************************************)
LitTok == 1
MatchTok == 2
FullFlushTok == 3
FinishTok == 4

Z_FULL_FLUSH == FullFlushTok
Z_FINISH == FinishTok

\* size of the window selected by wbits = -15
WindowSize == 32768

LastN(s, n) == IF Len(s) <= n THEN s ELSE SubSeq(s, Len(s) - n + 1, Len(s))

\* zlib.compressobj(wbits=-15)
compressobj == [hist |-> <<>>]

\* length of the run of bytes equal to c at the head of s
RECURSIVE RunLen(_, _)
RunLen(s, c) ==
    IF s = <<>> \/ Head(s) # c THEN 0 ELSE 1 + RunLen(Tail(s), c)

\* the tokens for chunk s given the window w
RECURSIVE Deflate(_, _)
Deflate(w, s) ==
    IF s = <<>> THEN <<>>
    ELSE IF w # <<>> /\ w[Len(w)] = Head(s)
         THEN LET n == RunLen(s, Head(s))
              IN  <<MatchTok, 1, n>>
                    \o Deflate(w \o SubSeq(s, 1, n), SubSeq(s, n + 1, Len(s)))
         ELSE <<LitTok, Head(s)>> \o Deflate(w \o <<Head(s)>>, Tail(s))

\* z.compress(chunk) followed by z.flush(mode): the bytes produced and the
\* compressor afterwards
z_compress_flush(z, chunk, mode) ==
    [out |-> Deflate(z.hist, chunk) \o <<mode>>,
     z   |-> IF mode = Z_FULL_FLUSH THEN [hist |-> <<>>]
             ELSE [hist |-> LastN(z.hist \o chunk, WindowSize)]]

\* copy n bytes from dist back, one at a time (the source may overlap)
RECURSIVE CopyMatch(_, _, _)
CopyMatch(w, dist, n) ==
    IF n = 0 THEN w ELSE CopyMatch(w \o <<w[Len(w) - dist + 1]>>, dist, n - 1)

\* inflate c from position p (1-based) with window w (dictionary \o output);
\* dl is the dictionary's length.  A malformed stream raises zlib.error; a
\* stream that stops short yields what was decoded.
RECURSIVE Inflate(_, _, _, _)
Inflate(c, p, w, dl) ==
    IF p > Len(c) THEN [ok |-> TRUE, out |-> SubSeq(w, dl + 1, Len(w))]
    ELSE IF c[p] = LitTok
         THEN IF p + 1 > Len(c) THEN [ok |-> TRUE, out |-> SubSeq(w, dl + 1, Len(w))]
              ELSE Inflate(c, p + 2, w \o <<c[p + 1]>>, dl)
    ELSE IF c[p] = MatchTok
         THEN IF p + 2 > Len(c) THEN [ok |-> TRUE, out |-> SubSeq(w, dl + 1, Len(w))]
              ELSE IF c[p + 1] < 1 \/ c[p + 1] > Len(w) THEN [ok |-> FALSE, out |-> <<>>]
              ELSE Inflate(c, p + 3, CopyMatch(w, c[p + 1], c[p + 2]), dl)
    ELSE IF c[p] = FullFlushTok THEN Inflate(c, p + 1, w, dl)
    ELSE IF c[p] = FinishTok THEN [ok |-> TRUE, out |-> SubSeq(w, dl + 1, Len(w))]
    ELSE [ok |-> FALSE, out |-> <<>>]

\* zlib.decompressobj(-15, zdict=zdict).decompress(c)
z_decompress(zdict, c) ==
    LET d == LastN(zdict, WindowSize)
    IN  Inflate(c, 1, d, Len(d))

(***************************************************************************)
(* decompress_mzip(chunks)                                                 *)
(***************************************************************************)
\* the loop over the stripped chunks; prev is output_chunks[i-1] (b'' for
\* i = 0) and acc the output chunks so far
RECURSIVE decompress_loop(_, _, _, _)
decompress_loop(chunks, i, prev, acc) ==
    IF i > Len(chunks) THEN [ok |-> TRUE, out |-> Join(acc)]
    ELSE LET r == z_decompress(prev, chunks[i])
         IN  IF ~r.ok THEN [ok |-> FALSE, out |-> <<>>]
             ELSE decompress_loop(chunks, i + 1, r.out, Append(acc, r.out))

\* variant that leaves the 2-byte marker in front of each chunk
decompress_mzip_keep_marker(chunks) ==
    decompress_loop(chunks, 1, <<>>, <<>>)

decompress_mzip(chunks) ==
    LET stripped == [k \in 1..Len(chunks) |-> PySlice(chunks[k], 2, Len(chunks[k]))]
    IN  decompress_loop(stripped, 1, <<>>, <<>>)

(***************************************************************************)
(* make_cdatas(data, compress)                                             *)
(***************************************************************************)
\* the 2-byte marker b'CK'
CK == <<67, 75>>

\* one data block: csum placeholder, cbData, cbUncomp, payload, then the
\* checksum of everything after the csum field patched in at offset 0
cdata_block(c, chunk) ==
    LET output == <<0, 0, 0, 0>> \o U16(Len(c)) \o U16(Len(chunk)) \o c
        csum   == checksum(SubSeq(output, 5, Len(output)), Word(0, 0, 0, 0))
    IN  write_at(output, 0, csum)

\* variant: the flush kind does not depend on the chunk being the last
flush_mode_always_full(chunk_size, remaining) == Z_FULL_FLUSH

\* zlib.Z_FINISH if chunk_size == remaining else zlib.Z_FULL_FLUSH
flush_mode(chunk_size, remaining) ==
    IF chunk_size = remaining THEN Z_FINISH ELSE Z_FULL_FLUSH

RECURSIVE make_cdatas_loop(_, _, _, _, _, _)
make_cdatas_loop(d, cmp, start_off, remaining, z, res) ==
    IF ~(start_off < Len(d)) THEN res
    ELSE LET chunk_size == Min(max_chunk_size, remaining)
             chunk == PySlice(d, start_off, start_off + chunk_size)
             zr    == z_compress_flush(z, chunk, flush_mode(chunk_size, remaining))
             c     == IF cmp THEN CK \o zr.out ELSE chunk
         IN  make_cdatas_loop(d, cmp, start_off + chunk_size,
                              remaining - chunk_size,
                              IF cmp THEN zr.z ELSE z,
                              Append(res, cdata_block(c, chunk)))

make_cdatas(d, cmp) == make_cdatas_loop(d, cmp, 0, Len(d), compressobj, <<>>)

(***************************************************************************)
(* Specification of make_cdatas() on its own.                              *)
(***************************************************************************)
DataBytes == {65, 66}

InitCdatas ==
    /\ pc = "cd_call"
    /\ data \in SeqsUpTo(DataBytes, MaxData)
    /\ compress \in BOOLEAN
    /\ out = <<>>
    /\ seed = Word(0, 0, 0, 0)
    /\ layout = <<>>
    /\ buf = <<>>
    /\ cab = Failed
    /\ results = <<>>

CallMakeCdatas ==
    /\ pc = "cd_call"
    /\ out' = make_cdatas(data, compress)
    /\ pc' = "cd_done"
    /\ UNCHANGED <<layout, compress, buf, cab, results, data, seed>>

NextCdatas == CallMakeCdatas

SpecCdatas == InitCdatas /\ [][NextCdatas]_vars

CeilDiv(n, m) == (n + m - 1) \div m

\* fields of an emitted block
BlkCbData(blk) == RdU16(blk, 4)
BlkCbUncomp(blk) == RdU16(blk, 6)
BlkPayload(blk) == SubSeq(blk, 9, Len(blk))

\* C8: make_cdatas on n bytes emits, in input order, ceil(n / max_chunk_size)
\* blocks; every block but the last holds max_chunk_size uncompressed bytes
\* and the last holds the rest; with compression every payload starts with
\* 'CK', every block but the last ends with a full flush and exactly the
\* last one with a stream finish.
C8_ChunkingOfMakeCdatas ==
    pc = "cd_done" =>
        LET n  == Len(data)
            nb == Len(out)
        IN  /\ nb = CeilDiv(n, max_chunk_size)
            /\ \A k \in 1..nb :
                 /\ BlkCbUncomp(out[k]) =
                        IF k < nb THEN max_chunk_size
                        ELSE n - max_chunk_size * (nb - 1)
                 /\ BlkCbUncomp(out[k]) <= max_chunk_size
                 /\ BlkCbData(out[k]) = Len(BlkPayload(out[k]))
                 /\ ~compress =>
                      BlkPayload(out[k]) =
                        SubSeq(data, max_chunk_size * (k - 1) + 1,
                               max_chunk_size * (k - 1) + BlkCbUncomp(out[k]))
                 /\ compress =>
                      /\ SubSeq(BlkPayload(out[k]), 1, 2) = CK
                      /\ BlkPayload(out[k])[Len(BlkPayload(out[k]))] =
                            IF k < nb THEN Z_FULL_FLUSH ELSE Z_FINISH
            /\ compress =>
                 decompress_mzip([k \in 1..nb |-> BlkPayload(out[k])])
                    = [ok |-> TRUE, out |-> data]

\* a compressed buffer that needed more than one block, the last one short
C8_Witness ==
    /\ pc = "cd_done"
    /\ compress
    /\ Len(out) >= 2
    /\ BlkCbUncomp(out[Len(out)]) < BlkCbUncomp(out[1])

(***************************************************************************)
(* make_cab(layout, compress).  A layout is a sequence of folders, a       *)
(* folder a sequence of files, a file a pair <<name, bytes>>.  The         *)
(* BinWriter is its buffer; its off is always the buffer's length.         *)
(***************************************************************************)
\* the signature written by make_cab: b'M', b'S', b'C', b'F'
MSCF == <<77, 83, 67, 70>>

\* sum([len(f) for f in layout])
RECURSIVE SumLen(_)
SumLen(l) == IF l = <<>> THEN 0 ELSE Len(Head(l)) + SumLen(Tail(l))

\* the header with the two fields to backpatch still zero
cab_header(nb_folder, nb_files) ==
    MSCF \o U32(0) \o U32(0) \o U32(0) \o U32(0) \o U32(0)
         \o <<3, 1>> \o U16(nb_folder) \o U16(nb_files)
         \o U16(0) \o U16(42) \o U16(0)

\* offsets recorded while the header is written
total_size_off == 8
first_file_off == 16

\* the running offset o of each file within its folder's stream
RECURSIVE file_offsets(_, _, _)
file_offsets(fol, j, o) ==
    IF j > Len(fol) THEN <<>>
    ELSE <<o>> \o file_offsets(fol, j + 1, o + Len(fol[j][2]))

\* the dictionary f built for one folder of the layout, b being the buffer
\* before the folder's entry is written
folder_info(fol, cmp, b) ==
    [cdata            |-> make_cdatas(Join([j \in 1..Len(fol) |-> fol[j][2]]), cmp),
     coffCabStart_off |-> Len(b),
     fsize            |-> [j \in 1..Len(fol) |-> Len(fol[j][2])],
     foff             |-> file_offsets(fol, 1, 0),
     name             |-> [j \in 1..Len(fol) |-> fol[j][1]]]

\* "write all CFFOLDER"
RECURSIVE write_folders(_, _, _, _, _)
write_folders(b, lay, k, cmp, folders) ==
    IF k > Len(lay) THEN [b |-> b, folders |-> folders]
    ELSE LET f == folder_info(lay[k], cmp, b)
         IN  write_folders(b \o U32(0) \o U16(Len(f.cdata))
                             \o U16(IF cmp THEN 1 ELSE 0),
                           lay, k + 1, cmp, Append(folders, f))

\* one CFFILE entry: size, offset, folder index i (0-based), date, time,
\* attribs, name, NUL
file_entry(fol, i, j) ==
    U32(fol.fsize[j]) \o U32(fol.foff[j]) \o U16(i)
        \o U16(0) \o U16(0) \o U16(0) \o fol.name[j] \o <<0>>

\* "write all CFFILE": folder i (1-based position), file j
RECURSIVE write_files(_, _, _, _)
write_files(b, folders, i, j) ==
    IF i > Len(folders) THEN b
    ELSE IF j > Len(folders[i].fsize) THEN write_files(b, folders, i + 1, 1)
    ELSE write_files(b \o file_entry(folders[i], i - 1, j), folders, i, j + 1)

\* "write all CDATA": patch the folder's coffCabStart, then append its blocks
RECURSIVE write_cdatas(_, _, _)
write_cdatas(b, folders, i) ==
    IF i > Len(folders) THEN b
    ELSE write_cdatas(
            write_at(b, folders[i].coffCabStart_off, U32(Len(b)))
                \o Join(folders[i].cdata),
            folders, i + 1)

make_cab(lay, cmp) ==
    LET nb_folder == Len(lay)
        nb_files  == SumLen(lay)
        b0 == cab_header(nb_folder, nb_files)
        wf == write_folders(b0, lay, 1, cmp, <<>>)
        b1 == write_at(wf.b, first_file_off, U32(Len(wf.b)))
        b2 == write_files(b1, wf.folders, 1, 1)
        b3 == write_cdatas(b2, wf.folders, 1)
    IN  write_at(b3, total_size_off, U32(Len(b3)))

(***************************************************************************)
(* CABFile.__init__(buf): one sequential pass over the buffer.  A read     *)
(* past the end of the buffer raises (struct.error) and aborts the         *)
(* constructor: the result is then [ok |-> FALSE].                         *)
(***************************************************************************)
\* BinReader.read_cstring from offset off; s is the string read so far
RECURSIVE read_cstring(_, _, _)
read_cstring(b, off, s) ==
    IF off >= Len(b) THEN Failed
    ELSE IF b[off + 1] = 0 THEN [ok |-> TRUE, s |-> s, off |-> off + 1]
    ELSE read_cstring(b, off + 1, Append(s, b[off + 1]))

\* n NUL-terminated strings in a row
RECURSIVE read_cstrings(_, _, _, _)
read_cstrings(b, off, n, acc) ==
    IF n = 0 THEN [ok |-> TRUE, names |-> acc, off |-> off]
    ELSE LET r == read_cstring(b, off, <<>>)
         IN  IF ~r.ok THEN Failed
             ELSE read_cstrings(b, r.off, n - 1, Append(acc, r.s))

\* flag & mask # 0 for a one-bit mask
HasFlag(flags, mask) == (flags \div mask) % 2 = 1

\* the header: fixed fields, the parts gated by the flags, the reserved area
parse_header(b) ==
    IF Len(b) < 36 THEN Failed
    ELSE
    LET flags == RdU16(b, 30)
        o0    == 36
        resOk == HasFlag(flags, 4) => Len(b) >= o0 + 4
        Hres  == IF HasFlag(flags, 4) /\ resOk THEN RdU16(b, o0) ELSE 0
        Fres  == IF HasFlag(flags, 4) /\ resOk THEN RdU8(b, o0 + 2) ELSE 0
        Dres  == IF HasFlag(flags, 4) /\ resOk THEN RdU8(b, o0 + 3) ELSE 0
        o1    == IF HasFlag(flags, 4) THEN o0 + 4 ELSE o0
        prev  == IF ~resOk THEN Failed
                 ELSE IF HasFlag(flags, 1) THEN read_cstrings(b, o1, 2, <<>>)
                 ELSE [ok |-> TRUE, names |-> <<>>, off |-> o1]
        next  == IF ~prev.ok THEN Failed
                 ELSE IF HasFlag(flags, 2) THEN read_cstrings(b, prev.off, 2, <<>>)
                 ELSE [ok |-> TRUE, names |-> <<>>, off |-> prev.off]
    IN  IF ~next.ok THEN Failed
        ELSE IF next.off + Hres > Len(b) THEN Failed
        ELSE [ok        |-> TRUE,
              off       |-> next.off + Hres,
              signature |-> SubSeq(b, 1, 4),
              cbCabinet |-> RdU32(b, 8),
              coffFiles |-> RdU32(b, 16),
              vMinor    |-> RdU8(b, 24),
              vMajor    |-> RdU8(b, 25),
              cFolders  |-> RdU16(b, 26),
              cFiles    |-> RdU16(b, 28),
              flags     |-> flags,
              setID     |-> RdU16(b, 32),
              iCabinet  |-> RdU16(b, 34),
              cbCFHeader |-> Hres,
              cbCFFolder |-> Fres,
              cbCFData   |-> Dres,
              szPrev    |-> prev.names,
              szNext    |-> next.names]

\* "for i in range(cFolders)": n entries left to read
RECURSIVE parse_folders(_, _, _, _, _)
parse_folders(b, off, n, Fres, acc) ==
    IF n = 0 THEN [ok |-> TRUE, off |-> off, items |-> acc]
    ELSE IF off + 8 + Fres > Len(b) THEN Failed
    ELSE parse_folders(b, off + 8 + Fres, n - 1, Fres,
            Append(acc, [coffCabStart |-> RdU32(b, off),
                         cCFData      |-> RdU16(b, off + 4),
                         typeCompress |-> RdU16(b, off + 6)]))

\* "for i in range(cFiles)"
RECURSIVE parse_files(_, _, _, _)
parse_files(b, off, n, acc) ==
    IF n = 0 THEN [ok |-> TRUE, off |-> off, items |-> acc]
    ELSE IF off + 16 > Len(b) THEN Failed
    ELSE LET nm == read_cstring(b, off + 16, <<>>)
         IN  IF ~nm.ok THEN Failed
             ELSE parse_files(b, nm.off, n - 1,
                    Append(acc, [cbFile          |-> RdU32(b, off),
                                 uoffFolderStart |-> RdU32(b, off + 4),
                                 iFolder         |-> RdU16(b, off + 8),
                                 date            |-> RdU16(b, off + 10),
                                 time            |-> RdU16(b, off + 12),
                                 attribs         |-> RdU16(b, off + 14),
                                 szName          |-> nm.s]))

\* "while self.f.br.off < len(self.f.br.buf)": each block remembers the
\* absolute offset off it was read at (its key in data_off) and the bytes
\* it consumed (raw, of length read_size())
RECURSIVE parse_datas(_, _, _, _)
parse_datas(b, off, Dres, acc) ==
    IF ~(off < Len(b)) THEN [ok |-> TRUE, off |-> off, items |-> acc]
    ELSE IF off + 8 + Dres > Len(b) THEN Failed
    ELSE LET cbData == RdU16(b, off + 4)
             size   == 8 + Dres + cbData
         IN  IF off + size > Len(b) THEN Failed
             ELSE parse_datas(b, off + size, Dres,
                    Append(acc, [off      |-> off,
                                 csum     |-> RdWord(b, off),
                                 cbData   |-> cbData,
                                 cbUncomp |-> RdU16(b, off + 6),
                                 ab       |-> SubSeq(b, off + 8 + Dres + 1, off + size),
                                 raw      |-> SubSeq(b, off + 1, off + size)]))

CABFile(b) ==
    LET h == parse_header(b)
    IN  IF ~h.ok THEN Failed
        ELSE LET fo == parse_folders(b, h.off, h.cFolders, h.cbCFFolder, <<>>)
             IN  IF ~fo.ok THEN Failed
                 ELSE LET fi == parse_files(b, fo.off, h.cFiles, <<>>)
                      IN  IF ~fi.ok THEN Failed
                          ELSE LET da == parse_datas(b, fi.off, h.cbCFData, <<>>)
                               IN  IF ~da.ok THEN Failed
                                   ELSE [ok      |-> TRUE,
                                         f       |-> h,
                                         folders |-> fo.items,
                                         files   |-> fi.items,
                                         datas   |-> da.items]

\* self.data_off: the blocks keyed by their absolute offset
data_off(self) ==
    [o \in {self.datas[k].off : k \in 1..Len(self.datas)} |->
        LET k == CHOOSE k \in 1..Len(self.datas) : self.datas[k].off = o
        IN  self.datas[k]]

(***************************************************************************)
(* CABFile.get_folder_files(index), index being 0-based.  The outcome is   *)
(* [raised |-> the exception or "", ret |-> the list returned].            *)
(***************************************************************************)
Raise(e) == [raised |-> e, ret |-> <<>>]
Return(v) == [raised |-> "", ret |-> v]

CABFile_COMPRESSION_NONE == 0
CABFile_COMPRESSION_MSZIP == 1

\* variant without the assertion on the block checksum
csum_unchecked(cdata) == TRUE

\* csum == cdata.data['csum'], csum taken over the block minus its first 4 bytes
csum_matches(cdata) ==
    checksum(PySlice(cdata.raw, 4, Len(cdata.raw)), Word(0, 0, 0, 0)) = cdata.csum

\* "get all CDATA belonging to that folder": i blocks walked so far
RECURSIVE collect_chunks(_, _, _, _, _)
collect_chunks(self, cdata_off, cdata_nb, i, chunks) ==
    IF i >= cdata_nb THEN [raised |-> "", chunks |-> chunks]
    ELSE IF cdata_off \notin DOMAIN data_off(self)
         THEN [raised |-> "KeyError", chunks |-> <<>>]
    ELSE LET cdata == data_off(self)[cdata_off]
         IN  IF ~csum_matches(cdata)
             THEN [raised |-> "AssertionError", chunks |-> <<>>]
             ELSE collect_chunks(self, cdata_off + Len(cdata.raw), cdata_nb,
                                 i + 1, Append(chunks, cdata.ab))

\* variant that treats an unknown compression type as stored data
folder_stream_lenient(typeCompress, chunks) ==
    IF typeCompress = CABFile_COMPRESSION_MSZIP
    THEN LET r == decompress_mzip(chunks)
         IN  IF r.ok THEN [raised |-> "", folder_data |-> r.out]
             ELSE [raised |-> "zlib.error", folder_data |-> <<>>]
    ELSE [raised |-> "", folder_data |-> Join(chunks)]

\* "concat them, apply eventual decompress step"
folder_stream(typeCompress, chunks) ==
    IF typeCompress = CABFile_COMPRESSION_NONE
    THEN [raised |-> "", folder_data |-> Join(chunks)]
    ELSE IF typeCompress = CABFile_COMPRESSION_MSZIP
    THEN LET r == decompress_mzip(chunks)
         IN  IF r.ok THEN [raised |-> "", folder_data |-> r.out]
             ELSE [raised |-> "zlib.error", folder_data |-> <<>>]
    ELSE [raised |-> "AssertionError", folder_data |-> <<>>]

\* "split the folder data according to offsets set in CFILEs"
RECURSIVE split_files(_, _, _, _)
split_files(files, index, folder_data, k) ==
    IF k > Len(files) THEN <<>>
    ELSE LET fi  == files[k]
             beg == fi.uoffFolderStart
             end == beg + fi.cbFile
         IN  (IF fi.iFolder = index
              THEN << <<fi.szName, PySlice(folder_data, beg, end)>> >>
              ELSE <<>>)
             \o split_files(files, index, folder_data, k + 1)

\* the folder's reconstructed stream, or the exception raised on the way
folder_data_of(self, index) ==
    LET folder == self.folders[index + 1]
        cc == collect_chunks(self, folder.coffCabStart, folder.cCFData, 0, <<>>)
    IN  IF cc.raised # "" THEN [raised |-> cc.raised, folder_data |-> <<>>]
        ELSE folder_stream(folder.typeCompress, cc.chunks)

get_folder_files_ret(self, index) ==
    IF index >= Len(self.folders) THEN Raise("IndexError")
    ELSE LET fd == folder_data_of(self, index)
         IN  IF fd.raised # "" THEN Raise(fd.raised)
             ELSE Return(split_files(self.files, index, fd.folder_data, 1))

\* variant in which a failed reconstruction drops the block index
self_after_get_forgetful(self, index) ==
    IF get_folder_files_ret(self, index).raised # ""
    THEN [self EXCEPT !.datas = <<>>]
    ELSE self

\* the CABFile after get_folder_files(index): the method assigns nothing to
\* self nor to the records it reads
self_after_get(self, index) == self

(***************************************************************************)
(* The program as a state machine: make_cab writes a buffer, CABFile       *)
(* parses a buffer, get_folder_files reconstructs one folder at a time, in *)
(* any order and any number of times.                                      *)
(*   pc      : "start", "written", "tampered", "parsed", "parse_failed"    *)
(*   layout, compress : the arguments of make_cab                          *)
(*   buf     : the buffer handed to CABFile                                *)
(*   cab     : the CABFile object (Failed when the constructor raised)     *)
(*   results : per folder index, the outcome of the last get_folder_files  *)
(***************************************************************************)
\* the files layouts are made of: an empty file, a one-byte file, a file
\* longer than two chunks with a repeated byte, a file with an empty name,
\* and a file whose name holds a zero byte
fEmpty == << <<97>>, <<>> >>
fOne == << <<98>>, <<65>> >>
fLong == << <<97>>, <<65, 65, 66, 65, 65>> >>
fNoName == << <<>>, <<66, 65>> >>
fNul == << <<99, 0, 100>>, <<66>> >>

\* the folders layouts are made of
FolderChoices ==
    { <<>>,
      <<fEmpty>>,
      <<fOne>>,
      <<fOne, fNoName>>,
      <<fLong>>,
      <<fNoName, fLong>>,
      <<fLong, fEmpty, fOne>>,
      <<fNul>> }

Layouts == SeqsUpTo(FolderChoices, MaxFolders)

NotCalled == [raised |-> "not called", ret |-> <<>>]

InitWith(L) ==
    /\ pc = "start"
    /\ layout \in L
    /\ compress \in BOOLEAN
    /\ buf = <<>>
    /\ cab = Failed
    /\ results = <<>>
    /\ data = <<>>
    /\ seed = Word(0, 0, 0, 0)
    /\ out = <<>>

Init == InitWith(Layouts)

\* buf = make_cab(layout, compress)
MakeCab ==
    /\ pc = "start"
    /\ buf' = make_cab(layout, compress)
    /\ pc' = "written"
    /\ UNCHANGED <<layout, compress, cab, results, data, seed, out>>

\* cab = CABFile(buf)
Parse ==
    /\ pc \in {"written", "tampered"}
    /\ cab' = CABFile(buf)
    /\ pc' = IF cab'.ok THEN "parsed" ELSE "parse_failed"
    /\ results' = IF cab'.ok THEN [i \in 1..Len(cab'.folders) |-> NotCalled]
                  ELSE <<>>
    /\ UNCHANGED <<layout, compress, buf, data, seed, out>>

\* cab.get_folder_files(index) for an index in range(len(cab.folders)), as
\* dump() calls it; results[index + 1] keeps its outcome
GetFolderFiles(index) ==
    /\ pc = "parsed"
    /\ index < Len(cab.folders)
    /\ results' = [results EXCEPT ![index + 1] = get_folder_files_ret(cab, index)]
    /\ cab' = self_after_get(cab, index)
    /\ UNCHANGED <<pc, layout, compress, buf, data, seed, out>>

Next ==
    \/ MakeCab
    \/ Parse
    \/ \E index \in 0..(Len(results) - 1) : GetFolderFiles(index)

Spec == Init /\ [][Next]_vars

\* no byte of any file name is zero
NulFree(lay) ==
    \A i \in 1..Len(lay) : \A j \in 1..Len(lay[i]) :
        \A k \in 1..Len(lay[i][j][1]) : lay[i][j][1][k] # 0

\* every call made so far returned the folder's files
RoundTrips ==
    /\ pc # "parse_failed"
    /\ pc = "parsed" =>
         /\ Len(cab.folders) = Len(layout)
         /\ \A i \in 1..Len(results) :
              results[i] # NotCalled => results[i] = Return(layout[i])

\* C1 as stated: for any layout and both values of compress, parsing
\* make_cab(layout, compress) and calling get_folder_files(i) returns exactly
\* the (name, bytes) pairs of layout[i], in order.
C1_RoundTripAnyLayout == RoundTrips

\* C1 amended: the round trip holds for every layout whose file names contain
\* no zero byte.
C1_RoundTripNulFreeNames == NulFree(layout) => RoundTrips

\* a compressed two-folder layout, one folder spanning several blocks and
\* holding two files, was reconstructed completely
C1_Witness ==
    /\ pc = "parsed"
    /\ compress
    /\ NulFree(layout)
    /\ Len(layout) = 2
    /\ \E i \in 1..2 : Len(layout[i]) >= 2 /\ cab.folders[i].cCFData >= 2
    /\ \A i \in 1..2 : results[i] # NotCalled

\* the call on folder i (1-based position) was made and raised / returned
Raised(r) == r # NotCalled /\ r.raised # ""
Returned(r) == r.raised = ""

(***************************************************************************)
(* The same machine fed with a buffer that is not make_cab's output: one   *)
(* byte of the written buffer is replaced before it is parsed.             *)
(***************************************************************************)
TamperLayouts ==
    { << <<fLong>> >>,
      << <<fOne, fNoName>>, <<fLong>> >>,
      << <<fEmpty>>, <<fOne>> >> }

\* the replacement bytes: small field values, the bits of the header flags,
\* and a letter
TamperVals == {0, 1, 2, 3, 4, 88}

InitTamper == InitWith(TamperLayouts)

\* the caller's buffer differs from the written one in the byte at pos
Tamper ==
    /\ pc = "written"
    /\ \E pos \in 1..Len(buf), v \in TamperVals :
          /\ buf[pos] # v
          /\ buf' = [buf EXCEPT ![pos] = v]
    /\ pc' = "tampered"
    /\ UNCHANGED <<layout, compress, cab, results, data, seed, out>>

NextTamper ==
    \/ MakeCab
    \/ Tamper
    \/ Parse
    \/ \E index \in 0..(Len(results) - 1) : GetFolderFiles(index)

SpecTamper == InitTamper /\ [][NextTamper]_vars

(***************************************************************************)
(* Where make_cab puts things, derived from the layout alone.              *)
(***************************************************************************)
\* the folder's logical stream and its blocks
FolderBytes(fol) == Join([j \in 1..Len(fol) |-> fol[j][2]])
FolderBlocks(fol, cmp) == make_cdatas(FolderBytes(fol), cmp)

\* bytes taken by the file directory entries of the folder
RECURSIVE FileDirLen(_)
FileDirLen(fol) ==
    IF fol = <<>> THEN 0 ELSE 16 + Len(Head(fol)[1]) + 1 + FileDirLen(Tail(fol))

RECURSIVE LayoutDirLen(_)
LayoutDirLen(lay) ==
    IF lay = <<>> THEN 0 ELSE FileDirLen(Head(lay)) + LayoutDirLen(Tail(lay))

\* offset of the first file directory entry and of the first data block
FilesStart(lay) == 36 + 8 * Len(lay)
DataStart(lay) == FilesStart(lay) + LayoutDirLen(lay)

\* offset of block k (1-based) of folder i (1-based); k may be one past the
\* folder's last block
RECURSIVE BlockOff(_, _, _, _)
BlockOff(lay, cmp, i, k) ==
    IF k > 1 THEN BlockOff(lay, cmp, i, k - 1) + Len(FolderBlocks(lay[i], cmp)[k - 1])
    ELSE IF i > 1
         THEN BlockOff(lay, cmp, i - 1, Len(FolderBlocks(lay[i - 1], cmp)) + 1)
    ELSE DataStart(lay)

\* the 0-based offset at which buf differs from what make_cab wrote
TamperedOff ==
    LET orig == make_cab(layout, compress)
    IN  (CHOOSE p \in 1..Len(buf) : buf[p] # orig[p]) - 1

IsTampered == buf # make_cab(layout, compress)

\* offset o lies in the payload of a block of folder i (1-based)
InPayloadOf(o, i) ==
    \E k \in 1..Len(FolderBlocks(layout[i], compress)) :
        /\ o >= BlockOff(layout, compress, i, k) + 8
        /\ o < BlockOff(layout, compress, i, k + 1)

\* C3: every block emitted by the writer stores the checksum of its bytes
\* after the csum field; and once a single payload byte of a written buffer
\* is changed, get_folder_files of the folder owning the block raises.
C3_ChecksumGuardsPayload ==
    /\ pc = "written" =>
         \A i \in 1..Len(layout) :
            \A k \in 1..Len(FolderBlocks(layout[i], compress)) :
               LET o == BlockOff(layout, compress, i, k)
                   e == o + 8 + RdU16(buf, o + 4)
               IN  /\ e = BlockOff(layout, compress, i, k + 1)
                   /\ RdWord(buf, o) = checksum(SubSeq(buf, o + 5, e), Word(0, 0, 0, 0))
    /\ (pc = "parsed" /\ IsTampered) =>
         \A i \in 1..Len(results) :
            (i <= Len(layout) /\ InPayloadOf(TamperedOff, i) /\ results[i] # NotCalled)
                => Raised(results[i])

\* a payload byte of a folder's block was changed and the folder was
\* reconstructed, in a cabinet that parsed with its two folders
C3_Witness ==
    /\ pc = "parsed"
    /\ IsTampered
    /\ Len(results) = 2
    /\ Len(layout) = 2
    /\ InPayloadOf(TamperedOff, 2)
    /\ results[2].raised = "AssertionError"

\* C4: a folder whose typeCompress is neither 0 nor 1 never yields a list of
\* files: get_folder_files on it raises, whatever its blocks and files are.
C4_UnsupportedCompressionRaises ==
    pc = "parsed" =>
        \A i \in 1..Len(results) :
            (cab.folders[i].typeCompress \notin {0, 1} /\ results[i] # NotCalled)
                => Raised(results[i])

\* a Quantum or LZX folder with intact blocks was reconstructed
C4_Witness ==
    /\ pc = "parsed"
    /\ \E i \in 1..Len(results) :
          /\ cab.folders[i].typeCompress \in {2, 3}
          /\ cab.folders[i].cCFData >= 1
          /\ results[i] # NotCalled
          /\ collect_chunks(cab, cab.folders[i].coffCabStart,
                            cab.folders[i].cCFData, 0, <<>>).raised = ""

\* C5: a buffer whose first four bytes are not 'MSCF' is not parsed into a
\* record set.
C5_BadSignatureAbortsParse ==
    pc = "parsed" => cab.f.signature = MSCF

\* C6: whenever get_folder_files returns, every file entry of the folder lies
\* within the folder's reconstructed stream.
C6_FileRangeWithinStream ==
    pc = "parsed" =>
        \A i \in 1..Len(results) :
            (results[i] # NotCalled /\ Returned(results[i])) =>
                \A k \in 1..Len(cab.files) :
                    cab.files[k].iFolder = i - 1 =>
                        cab.files[k].uoffFolderStart + cab.files[k].cbFile
                            <= Len(folder_data_of(cab, i - 1).folder_data)

\* C7: when parsing and the reconstruction of every folder complete without
\* an error, every file entry refers to an existing folder.
C7_InvalidFolderReferenceSurfaces ==
    (/\ pc = "parsed"
     /\ Len(results) >= 1
     /\ \A i \in 1..Len(results) : results[i] # NotCalled /\ Returned(results[i]))
        => \A k \in 1..Len(cab.files) : cab.files[k].iFolder < Len(cab.folders)

\* C9: get_folder_files leaves the parsed record set unchanged, whether it
\* returns or raises, so the outcome of get_folder_files(j) is the same
\* before and after any other call, and an outcome once obtained is what a
\* later call obtains again.
C9_ReconstructionLeavesCabUnchanged ==
    [][(pc = "parsed" /\ pc' = "parsed") =>
          /\ cab' = cab
          /\ Len(results') = Len(results)
          /\ \A j \in 1..Len(results) :
                /\ get_folder_files_ret(cab', j - 1) = get_folder_files_ret(cab, j - 1)
                /\ results[j] # NotCalled => results'[j] = results[j]]_vars

\* one folder's reconstruction raised and the other folder's files were
\* returned by a call made after the failure
C9_Witness ==
    /\ pc = "parsed"
    /\ Len(results) = 2
    /\ Raised(results[1])
    /\ results[2] # NotCalled
    /\ Returned(results[2])
    /\ results[2].ret # <<>>

\* C10: in make_cab's buffer cbCabinet is the buffer's length, coffFiles the
\* offset of the first file entry (the end of the folder entries), and each
\* folder's coffCabStart the offset of its first block, the blocks of all
\* folders lying back to back in folder order after the file directory.
C10_BackpatchedOffsets ==
    pc = "written" =>
        /\ RdU32(buf, total_size_off) = Len(buf)
        /\ RdU32(buf, first_file_off) = FilesStart(layout)
        /\ BlockOff(layout, compress, Len(layout) + 1, 1) = Len(buf)
        /\ \A i \in 1..Len(layout) :
              LET e    == 36 + 8 * (i - 1)
                  blks == FolderBlocks(layout[i], compress)
              IN  /\ RdU32(buf, e) = BlockOff(layout, compress, i, 1)
                  /\ RdU16(buf, e + 4) = Len(blks)
                  /\ \A k \in 1..Len(blks) :
                        SubSeq(buf, BlockOff(layout, compress, i, k) + 1,
                                    BlockOff(layout, compress, i, k + 1)) = blks[k]

\* a buffer with two folders, the first with several blocks, was written
C10_Witness ==
    /\ pc = "written"
    /\ Len(layout) = 2
    /\ RdU16(buf, 36 + 4) >= 2
    /\ RdU16(buf, 44 + 4) >= 1

====
